---------------------------- MODULE Spec2Model ----------------------------
(***************************************************************************)
(* Model of the chat client in src/src/App.tsx: the React state of the     *)
(* App component (ws, isConnected, messages, inputValue, isLoading), the   *)
(* WebSocket objects it creates, the reconnect timers it schedules and     *)
(* the session identifier it keeps in localStorage.                        *)
(*                                                                         *)
(* Strings are TLA+ strings; JavaScript string functions (trim,            *)
(* substring, JSON.stringify) are computed character by character.         *)
(* Message records carry text, isUser and sources; the timestamp           *)
(* (Date.now()) is an environment reading no handler ever reads back and   *)
(* is not represented.  A message built without a `sources` key has        *)
(* hasSources = FALSE.                                                     *)
(***************************************************************************)
EXTENDS Integers, Sequences, FiniteSets, TLC

\* ---------------------------------------------------------------- bounds
MaxSockets == 2
MaxMessages == 2
\* messages shown in the rendering specification
MaxRendered == 1

\* ------------------------------------------------------ program constants
\* setTimeout(connectWebSocket, 3000): three time units of 1000 ms
ReconnectDelay == 3

Null == 0

\* ------------------------------------------------------------ input sets
\* values typed into the search input
Queries == {"", "  ", " \"Hello\" "}

\* event.data of inbound frames
PayloadFull == "{\"text\":\"**Hi**\",\"message\":\"old\",\"sources\":[\"https://s.test\",\"https://t.test\"]}"
PayloadLegacy == "{\"message\":\"old\"}"
PayloadEmptyText == "{\"text\":\"\",\"sources\":[\"https://s.test\"]}"
PayloadRaw == "pong"
PayloadNull == "null"
PayloadNumber == "5"

Payloads ==
  {PayloadFull, PayloadLegacy, PayloadEmptyText, PayloadRaw, PayloadNull,
   PayloadNumber}

\* Math.random().toString(36)
RandomDraws == {"0.4fzyo82mvyr8kq1"}

\* localStorage without a chatSessionId entry (getItem returns null)
NoItem == [has |-> FALSE, val |-> ""]

VARIABLES
  phase,         \* "init": effect not yet run, "mounted", "unmounted"
  effectWs,      \* the ws value captured by the mount effect's closure
  ws,            \* useState ws: Null or the index of a socket
  isConnected,   \* useState isConnected
  messages,      \* useState messages
  inputValue,    \* useState inputValue
  isLoading,     \* useState isLoading (the Pending-Response Flag)
  sockets,       \* the WebSocket objects created so far, in creation order
  timers,        \* timers[k]: reconnect timers with k time units left
  localStorage,  \* the chatSessionId entry
  ev             \* history: the effect, socket handler, timer or submit that ran last

vars == <<phase, effectWs, ws, isConnected, messages, inputValue, isLoading,
          sockets, timers, localStorage, ev>>

\* ------------------------------------------------------- string helpers
Min(a, b) == IF a < b THEN a ELSE b

IsSpace(c) == c \in {" ", "\t", "\n"}

RECURSIVE TrimStart(_)
TrimStart(s) ==
  IF Len(s) = 0 THEN s
  ELSE IF IsSpace(SubSeq(s, 1, 1)) THEN TrimStart(SubSeq(s, 2, Len(s)))
  ELSE s

RECURSIVE TrimEnd(_)
TrimEnd(s) ==
  IF Len(s) = 0 THEN s
  ELSE IF IsSpace(SubSeq(s, Len(s), Len(s))) THEN TrimEnd(SubSeq(s, 1, Len(s) - 1))
  ELSE s

\* String.prototype.trim
Trim(s) == TrimEnd(TrimStart(s))

\* String.prototype.substring(a, b) for 0 <= a <= b
Substring(s, a, b) == SubSeq(s, Min(a, Len(s)) + 1, Min(b, Len(s)))

\* JSON.stringify of a string: quoted, with " and \ escaped
RECURSIVE EscapeChars(_)
EscapeChars(s) ==
  IF Len(s) = 0 THEN ""
  ELSE LET c == SubSeq(s, 1, 1)
           e == IF c = "\"" THEN "\\\""
                ELSE IF c = "\\" THEN "\\\\"
                ELSE c
       IN  e \o EscapeChars(SubSeq(s, 2, Len(s)))

JSONQuote(s) == "\"" \o EscapeChars(s) \o "\""

\* the payload built by concatenation, without escaping
StringifyQueryRaw(q) == "{\"query\":\"" \o q \o "\"}"

\* JSON.stringify({ query: q })
StringifyQuery(q) == "{\"query\":" \o JSONQuote(q) \o "}"


\* ------------------------------------------------------------ JSON.parse
Undef == [def |-> FALSE, s |-> ""]
Str(x) == [def |-> TRUE, s |-> x]

SyntaxError == [ok |-> FALSE, kind |-> "error", text |-> Undef, message |-> Undef,
                hasSources |-> FALSE, sources |-> <<>>]
JSObject(t, m, hs, src) == [ok |-> TRUE, kind |-> "object", text |-> t, message |-> m,
                            hasSources |-> hs, sources |-> src]
JSPrimitive(k) == [ok |-> TRUE, kind |-> k, text |-> Undef, message |-> Undef,
                   hasSources |-> FALSE, sources |-> <<>>]

\* JSON.parse on the frames of Payloads: the value each text denotes, or the
\* SyntaxError it raises
JSONParse(d) ==
  CASE d = PayloadFull -> JSObject(Str("**Hi**"), Str("old"), TRUE, <<"https://s.test", "https://t.test">>)
    [] d = PayloadLegacy -> JSObject(Undef, Str("old"), FALSE, <<>>)
    [] d = PayloadEmptyText -> JSObject(Str(""), Undef, TRUE, <<"https://s.test">>)
    [] d = PayloadNull -> JSPrimitive("null")
    [] d = PayloadNumber -> JSPrimitive("number")
    [] OTHER -> SyntaxError

\* JavaScript truthiness of a string-or-undefined value
Truthy(v) == v.def /\ v.s # ""

\* ------------------------------------------------------------- messages
\* the try block with the two field names tried in the other order
ParsedMessageLegacyFirst(data, raw) ==
  [text |-> IF Truthy(data.message) THEN data.message.s
            ELSE IF Truthy(data.text) THEN data.text.s
            ELSE raw,
   isUser |-> FALSE,
   hasSources |-> TRUE,
   sources |-> IF data.hasSources THEN data.sources ELSE <<>>]

\* the newMessage of onmessage's try block
ParsedMessage(data, raw) ==
  [text |-> IF Truthy(data.text) THEN data.text.s
            ELSE IF Truthy(data.message) THEN data.message.s
            ELSE raw,
   isUser |-> FALSE,
   hasSources |-> TRUE,
   sources |-> IF data.hasSources THEN data.sources ELSE <<>>]

\* the catch block showing a fixed notice instead of the frame
RawMessageNotice(raw) ==
  [text |-> "Invalid message", isUser |-> FALSE, hasSources |-> FALSE, sources |-> <<>>]

\* the newMessage of onmessage's catch block
RawMessage(raw) ==
  [text |-> raw, isUser |-> FALSE, hasSources |-> FALSE, sources |-> <<>>]

\* the Message websocket.onmessage appends for event.data = d: JSON.parse
\* raising, or a property read on null raising, lands in the catch block
InboundMessage(d) ==
  LET data == JSONParse(d)
  IN  IF ~data.ok \/ data.kind = "null" THEN RawMessage(d)
      ELSE ParsedMessage(data, d)

\* onmessage with the property read of null not caught
OnMessageStoreNoCatch(msgs, d) ==
  IF JSONParse(d).kind = "null" THEN msgs ELSE Append(msgs, InboundMessage(d))

\* the store replaced by the newest Message alone
OnMessageStoreLatestOnly(msgs, d) == <<InboundMessage(d)>>

\* the store after websocket.onmessage: setMessages(prev => [...prev, newMessage])
OnMessageStore(msgs, d) == Append(msgs, InboundMessage(d))

\* the newMessage of handleSubmit
UserMessage(q) ==
  [text |-> q, isUser |-> TRUE, hasSources |-> FALSE, sources |-> <<>>]

\* -------------------------------------------------------------- sockets
\* new WebSocket(url)
NewWebSocket(url) ==
  [url |-> url, readyState |-> "connecting", sendCalls |-> <<>>, wire |-> <<>>,
   closeCalled |-> FALSE, closeFired |-> FALSE]

\* WebSocket.send throws InvalidStateError while the socket is connecting
SendThrows(sock) == sock.readyState = "connecting"

\* WebSocket.send(data): the call is recorded; the frame goes on the wire
\* only from an open socket (a closing or closed socket discards it)
Send(sock, data) ==
  [sock EXCEPT !.sendCalls = Append(@, data),
               !.wire = IF sock.readyState = "open" THEN Append(@, data) ELSE @]

\* WebSocket.close()
Close(sock) ==
  [sock EXCEPT !.closeCalled = TRUE,
               !.readyState = IF @ \in {"connecting", "open"} THEN "closing" ELSE @]

\* ----------------------------------------------------------- session id
\* getSessionId with r the rendering of Math.random().toString(36)
GetSessionId(store, r) ==
  LET miss == ~store.has \/ store.val = ""
      sessionId == IF miss THEN Substring(r, 2, 15) ELSE store.val
  IN  [sessionId |-> sessionId,
       store |-> IF miss THEN [has |-> TRUE, val |-> sessionId] ELSE store]

\* connectWebSocket up to setWs: the storage and the socket list afterwards
\* and the index of the socket created
ConnectWebSocket(store, socks, r) ==
  LET g == GetSessionId(store, r)
  IN  [store |-> g.store,
       socks |-> Append(socks, NewWebSocket("ws://localhost:8765/ws/" \o g.sessionId)),
       id |-> Len(socks) + 1]

\* the cleanup returned by the mount effect, w being the ws its closure holds
EffectCleanup(socks, w) ==
  IF w # Null THEN [socks EXCEPT ![w] = Close(@)] ELSE socks

\* the timer armed with no delay
SetTimeoutNoDelay(t) == [t EXCEPT ![0] = @ + 1]

\* setTimeout(connectWebSocket, 3000)
SetTimeout(t) == [t EXCEPT ![ReconnectDelay] = @ + 1]

NoTimers == [k \in 0..ReconnectDelay |-> 0]
RECURSIVE SumUpTo(_, _)
SumUpTo(t, k) == IF k < 0 THEN 0 ELSE t[k] + SumUpTo(t, k - 1)
PendingTimers == SumUpTo(timers, ReconnectDelay)

Mounted == phase = "mounted"
Event(type, threw) == [type |-> type, threw |-> threw]

\* ----------------------------------------------------------------- Init
Init ==
  /\ phase = "init"
  /\ effectWs = Null
  /\ ws = Null
  /\ isConnected = FALSE
  /\ messages = <<>>
  /\ inputValue = ""
  /\ isLoading = FALSE
  /\ sockets = <<>>
  /\ timers = NoTimers
  /\ localStorage = NoItem
  /\ ev = Event("none", FALSE)

\* -------------------------------------------------------------- actions
\* The mount effect: connectWebSocket().  Under React.StrictMode a
\* development build runs the effect, its cleanup and the effect again in
\* the same commit; a production build runs it once.  The closure of the
\* cleanup holds the ws of the render that created the effect.
Mount(strict, r1, r2) ==
  /\ phase = "init"
  /\ LET captured == ws
         c1 == ConnectWebSocket(localStorage, sockets, r1)
         c2 == ConnectWebSocket(c1.store, EffectCleanup(c1.socks, captured), r2)
         c == IF strict THEN c2 ELSE c1
     IN  /\ sockets' = c.socks
         /\ localStorage' = c.store
         /\ ws' = c.id
         /\ effectWs' = captured
  /\ phase' = "mounted"
  /\ ev' = Event("mount", FALSE)
  /\ UNCHANGED <<isConnected, messages, inputValue, isLoading, timers>>

\* Unmount: the effect's cleanup runs and React drops the component's state:
\* the state variables go back to the values they have while no instance of
\* the component exists, and later calls of the setters change nothing.
\* Sockets and timers are not React state and live on.
Unmount ==
  /\ phase = "mounted"
  /\ phase' = "unmounted"
  /\ sockets' = EffectCleanup(sockets, effectWs)
  /\ ws' = Null
  /\ isConnected' = FALSE
  /\ messages' = <<>>
  /\ inputValue' = ""
  /\ isLoading' = FALSE
  /\ ev' = Event("unmount", FALSE)
  /\ UNCHANGED <<effectWs, timers, localStorage>>

\* websocket.onopen
SockOpen(s) ==
  /\ s \in DOMAIN sockets
  /\ sockets[s].readyState = "connecting"
  /\ sockets' = [sockets EXCEPT ![s].readyState = "open"]
  /\ isConnected' = IF Mounted THEN TRUE ELSE isConnected
  /\ ev' = Event("open", FALSE)
  /\ UNCHANGED <<phase, effectWs, ws, messages, inputValue, isLoading, timers,
                 localStorage>>

\* websocket.onclose
SockClose(s) ==
  /\ s \in DOMAIN sockets
  /\ ~sockets[s].closeFired
  /\ sockets' = [sockets EXCEPT ![s].readyState = "closed", ![s].closeFired = TRUE]
  /\ isConnected' = IF Mounted THEN FALSE ELSE isConnected
  /\ timers' = SetTimeout(timers)
  /\ ev' = Event("close", FALSE)
  /\ UNCHANGED <<phase, effectWs, ws, messages, inputValue, isLoading, localStorage>>

\* onerror also arming a reconnect timer
SockErrorReconnects(s) ==
  /\ s \in DOMAIN sockets
  /\ sockets[s].readyState # "closed"
  /\ sockets' = [sockets EXCEPT ![s].readyState = "closed"]
  /\ isLoading' = IF Mounted THEN FALSE ELSE isLoading
  /\ timers' = SetTimeout(timers)
  /\ ev' = Event("error", FALSE)
  /\ UNCHANGED <<phase, effectWs, ws, isConnected, messages, inputValue, localStorage>>

\* websocket.onerror: the connection has failed (readyState CLOSED); the
\* close event is dispatched after it
SockError(s) ==
  /\ s \in DOMAIN sockets
  /\ sockets[s].readyState # "closed"
  /\ sockets' = [sockets EXCEPT ![s].readyState = "closed"]
  /\ isLoading' = IF Mounted THEN FALSE ELSE isLoading
  /\ ev' = Event("error", FALSE)
  /\ UNCHANGED <<phase, effectWs, ws, isConnected, messages, inputValue, timers,
                 localStorage>>

\* websocket.onmessage with event.data = d
SockMessage(s, d) ==
  /\ s \in DOMAIN sockets
  /\ sockets[s].readyState = "open"
  /\ Mounted => Len(messages) < MaxMessages
  /\ isLoading' = IF Mounted THEN FALSE ELSE isLoading
  /\ messages' = IF Mounted THEN OnMessageStore(messages, d) ELSE messages
  /\ ev' = Event("message", FALSE)
  /\ UNCHANGED <<phase, effectWs, ws, isConnected, inputValue, sockets, timers,
                 localStorage>>

\* the reconnect timer fires: connectWebSocket()
TimerFire(r) ==
  /\ timers[0] > 0
  /\ Len(sockets) < MaxSockets
  /\ timers' = [timers EXCEPT ![0] = @ - 1]
  /\ LET c == ConnectWebSocket(localStorage, sockets, r)
     IN  /\ sockets' = c.socks
         /\ localStorage' = c.store
         /\ ws' = IF Mounted THEN c.id ELSE ws
  /\ ev' = Event("timer", FALSE)
  /\ UNCHANGED <<phase, effectWs, isConnected, messages, inputValue, isLoading>>

\* one time unit passes (time is followed while a reconnect can still run)
Tick ==
  /\ PendingTimers > timers[0]
  /\ Len(sockets) < MaxSockets
  /\ timers' = [k \in 0..ReconnectDelay |->
                  IF k = 0 THEN timers[0] + timers[1]
                  ELSE IF k = ReconnectDelay THEN 0
                  ELSE timers[k + 1]]
  /\ UNCHANGED <<ev, phase, effectWs, ws, isConnected, messages, inputValue, isLoading,
                 sockets, localStorage>>

\* the search input's onChange
OnChange(v) ==
  /\ Mounted
  /\ inputValue' = v
  /\ UNCHANGED <<ev, phase, effectWs, ws, isConnected, messages, isLoading, sockets,
                 timers, localStorage>>

\* the guard without the isConnected test
SubmitBlockedNoFlag == Trim(inputValue) = "" \/ ws = Null

\* the guard of handleSubmit
SubmitBlocked == Trim(inputValue) = "" \/ ws = Null \/ ~isConnected

\* handleSubmit
HandleSubmit ==
  /\ Mounted
  /\ IF SubmitBlocked
     THEN /\ ev' = Event("submit", FALSE)
          /\ UNCHANGED <<messages, isLoading, sockets, inputValue>>
     ELSE /\ Len(messages) < MaxMessages
          /\ messages' = Append(messages, UserMessage(inputValue))
          /\ isLoading' = TRUE
          /\ sockets' = [sockets EXCEPT ![ws] = Send(@, StringifyQuery(inputValue))]
          /\ inputValue' = IF SendThrows(sockets[ws]) THEN inputValue ELSE ""
          /\ ev' = Event("submit", SendThrows(sockets[ws]))
  /\ UNCHANGED <<phase, effectWs, ws, isConnected, timers, localStorage>>

Next ==
  \/ \E strict \in BOOLEAN, r1 \in RandomDraws, r2 \in RandomDraws : Mount(strict, r1, r2)
  \/ Unmount
  \/ \E s \in 1..MaxSockets : SockOpen(s)
  \/ \E s \in 1..MaxSockets : SockClose(s)
  \/ \E s \in 1..MaxSockets : SockError(s)
  \/ \E s \in 1..MaxSockets, d \in Payloads : SockMessage(s, d)
  \/ \E r \in RandomDraws : TimerFire(r)
  \/ Tick
  \/ \E v \in Queries : OnChange(v)
  \/ HandleSubmit

Spec == Init /\ [][Next]_vars

\* The connection side alone: the effect, the four socket handlers and the
\* reconnect timers.  The form handlers left out (onChange, handleSubmit) read
\* and write neither the timers nor the socket list's length nor any
\* readyState.  The event loop keeps running: time passes and due timers fire.
LifecycleNext ==
  \/ \E strict \in BOOLEAN, r1 \in RandomDraws, r2 \in RandomDraws : Mount(strict, r1, r2)
  \/ Unmount
  \/ \E s \in 1..MaxSockets : SockOpen(s)
  \/ \E s \in 1..MaxSockets : SockClose(s)
  \/ \E s \in 1..MaxSockets : SockError(s)
  \/ \E s \in 1..MaxSockets, d \in Payloads : SockMessage(s, d)
  \/ \E r \in RandomDraws : TimerFire(r)
  \/ Tick

FairSpec ==
  /\ Init
  /\ [][LifecycleNext]_vars
  /\ WF_vars(Tick)
  /\ WF_vars(\E r \in RandomDraws : TimerFire(r))

\* ------------------------------------------------------------ rendering
\* The texts of this model are ASCII.  The glyph rules of parseMarkdown
\* (the emoji class of line 342, the framed-title rules of lines 365-372 and
\* the stat-line rule of line 383, which needs a bullet glyph after a line
\* break that the rule before it has already consumed) match only on glyphs
\* outside ASCII and leave every such text as it is.
From(s, i) == SubSeq(s, i, Len(s))

StartsWith(s, pat) == Len(pat) <= Len(s) /\ SubSeq(s, 1, Len(pat)) = pat

\* String.prototype.indexOf(pat, i - 1) + 1: the first position >= i at
\* which pat occurs in s, 0 when there is none
IndexOf(s, pat, i) ==
  LET hits == {k \in i..(Len(s) - Len(pat) + 1) : SubSeq(s, k, k + Len(pat) - 1) = pat}
  IN  IF hits = {} THEN 0 ELSE CHOOSE k \in hits : \A j \in hits : k <= j

\* s.replace(/pat/g, rep) for a literal pat
RECURSIVE ReplaceAll(_, _, _)
ReplaceAll(s, pat, rep) ==
  LET p == IndexOf(s, pat, 1)
  IN  IF s = "" \/ p = 0 THEN s
      ELSE SubSeq(s, 1, p - 1) \o rep \o ReplaceAll(From(s, p + Len(pat)), pat, rep)

\* s.replace(/open([\s\S]*?)close/g, pre + '$1' + post): leftmost open, the
\* nearest close after it, possibly with nothing in between
RECURSIVE ReplaceSpans(_, _, _, _, _)
ReplaceSpans(s, open, close, pre, post) ==
  LET p == IndexOf(s, open, 1)
      q == IF p = 0 THEN 0 ELSE IndexOf(s, close, p + Len(open))
  IN  IF s = "" \/ q = 0 THEN s
      ELSE SubSeq(s, 1, p - 1) \o pre \o SubSeq(s, p + Len(open), q - 1) \o post
             \o ReplaceSpans(From(s, q + Len(close)), open, close, pre, post)

\* the lines ^...$ of the m flag
RECURSIVE SplitLines(_)
SplitLines(s) ==
  LET n == IndexOf(s, "\n", 1)
  IN  IF s = "" \/ n = 0 THEN <<s>> ELSE <<SubSeq(s, 1, n - 1)>> \o SplitLines(From(s, n + 1))

RECURSIVE JoinLines(_)
JoinLines(L) == IF Len(L) = 1 THEN L[1] ELSE L[1] \o "\n" \o JoinLines(Tail(L))

\* \s within a line
IsBlankChar(c) == c \in {" ", "\t"}

RECURSIVE SkipBlanks(_)
SkipBlanks(s) ==
  IF Len(s) > 0 /\ IsBlankChar(SubSeq(s, 1, 1)) THEN SkipBlanks(From(s, 2)) ELSE s

\* The backquote has no spelling in a TLA+ string: in every text of this
\* model the character ~, to which parseMarkdown and the HTML parser give no
\* meaning, stands for it.
Fence == "~~~"

\* the fence rule: fence, ([\s\S]*?), fence, flag g
CodeBlocks(s) == ReplaceSpans(s, Fence, Fence, "<pre><code>", "</code></pre>")

\* /\*\*([\s\S]*?)\*\*/g
Bold(s) == ReplaceSpans(s, "**", "**", "<strong>", "</strong>")

\* /\*([\s\S]*?)\*/g
Italic(s) == ReplaceSpans(s, "*", "*", "<em>", "</em>")

\* /^([-=])\1{2,}$/gm on one line
HorizontalRuleLine(l) ==
  IF /\ Len(l) >= 3
     /\ SubSeq(l, 1, 1) \in {"-", "="}
     /\ \A i \in 1..Len(l) : SubSeq(l, i, i) = SubSeq(l, 1, 1)
  THEN "<hr>" ELSE l

\* /^### (.*?)$/gm, /^## (.*?)$/gm, /^# (.*?)$/gm on one line
HeaderLine(l, marks, tag) ==
  IF StartsWith(l, marks \o " ")
  THEN "<" \o tag \o ">" \o From(l, Len(marks) + 2) \o "</" \o tag \o ">"
  ELSE l

\* /^>\s+(.*?)$/gm on one line that has text after the marker
BlockquoteLine(l) ==
  IF StartsWith(l, ">") /\ Len(l) >= 2 /\ IsBlankChar(SubSeq(l, 2, 2))
  THEN "<blockquote>" \o SkipBlanks(From(l, 2)) \o "</blockquote>"
  ELSE l

\* the anchor emitted for a link and for a bare URL
Anchor(href, label) ==
  "<a href=\"" \o href
    \o "\" target=\"_blank\" rel=\"noopener noreferrer\" style=\"color: #2563eb; text-decoration: none;\">"
    \o label \o "</a>"

\* /\[(.*?)\]\((.*?)\)/g: the leftmost "[", the nearest "](" after it and
\* the nearest ")" after that, all on one line
RECURSIVE Links(_)
Links(s) ==
  LET p == IndexOf(s, "[", 1)
      nl == IF p = 0 THEN 0 ELSE IndexOf(s, "\n", p)
      lim == IF nl = 0 THEN Len(s) + 1 ELSE nl
      q == IF p = 0 THEN 0 ELSE IndexOf(s, "](", p + 1)
      r == IF q = 0 THEN 0 ELSE IndexOf(s, ")", q + 2)
  IN  IF s = "" \/ p = 0 THEN s
      ELSE IF q # 0 /\ r # 0 /\ r < lim
      THEN SubSeq(s, 1, p - 1)
             \o Anchor(SubSeq(s, q + 2, r - 1), SubSeq(s, p + 1, q - 1))
             \o Links(From(s, r + 1))
      ELSE SubSeq(s, 1, p) \o Links(From(s, p + 1))

\* the first replace chain of parseMarkdown (lines 328-353)
Structural(text) ==
  LET inline == Italic(Bold(CodeBlocks(text)))
      L1 == SplitLines(inline)
      L2 == [i \in DOMAIN L1 |->
               HeaderLine(HeaderLine(HeaderLine(HorizontalRuleLine(L1[i]),
                 "###", "h3"), "##", "h2"), "#", "h1")]
      linked == Links(JoinLines(L2))
      L3 == SplitLines(linked)
  IN  JoinLines([i \in DOMAIN L3 |-> BlockquoteLine(L3[i])])

ParagraphBreak == "<br class=\"paragraph-break\">"
LineBreak == "<br class=\"line-break\">"

\* the second chain (lines 356-360)
BreakMarkers(s) == ReplaceAll(ReplaceAll(s, "\n\n", ParagraphBreak), "\n", LineBreak)

IsUpper(c) ==
  c \in {"A", "B", "C", "D", "E", "F", "G", "H", "I", "J", "K", "L", "M", "N",
         "O", "P", "Q", "R", "S", "T", "U", "V", "W", "X", "Y", "Z"}

\* the length of the run of [A-Z] at the head of s
RECURSIVE UpperRun(_)
UpperRun(s) ==
  IF Len(s) > 0 /\ IsUpper(SubSeq(s, 1, 1)) THEN 1 + UpperRun(From(s, 2)) ELSE 0

StatDiv(name) ==
  "<div style=\"font-weight: bold; color: #4b5563; margin: 8px 0 4px 0;\">" \o name \o ":</div>"

\* /<br class="line-break">\s*([A-Z]+):\s*<br class="line-break">/g
RECURSIVE CategoryLines(_)
CategoryLines(s) ==
  LET p == IndexOf(s, LineBreak, 1)
      a == IF p = 0 THEN "" ELSE SkipBlanks(From(s, p + Len(LineBreak)))
      n == UpperRun(a)
      b == IF n > 0 /\ StartsWith(From(a, n + 1), ":") THEN SkipBlanks(From(a, n + 2)) ELSE ""
  IN  IF s = "" \/ p = 0 THEN s
      ELSE IF n > 0 /\ StartsWith(From(a, n + 1), ":") /\ StartsWith(b, LineBreak)
      THEN SubSeq(s, 1, p - 1) \o StatDiv(SubSeq(a, 1, n))
             \o CategoryLines(From(b, Len(LineBreak) + 1))
      ELSE SubSeq(s, 1, p + Len(LineBreak) - 1) \o CategoryLines(From(s, p + Len(LineBreak)))

\* the bullet glyph U+2022, written as its escape
BulletGlyph == "\\u2022"

BulletDiv(item) ==
  "<div style=\"display: flex; margin: 4px 0 4px 12px;\"><span style=\"margin-right: 8px;\">"
    \o BulletGlyph \o "</span><span>" \o item \o "</span></div>"

\* /(<br class="line-break">)\s*[(bullet)-]\s+(.*?)(?=<br class="line-break">|$)/g
RECURSIVE BulletLines(_)
BulletLines(s) ==
  LET p == IndexOf(s, LineBreak, 1)
      a == IF p = 0 THEN "" ELSE SkipBlanks(From(s, p + Len(LineBreak)))
      hit == StartsWith(a, "-") /\ Len(a) >= 2 /\ IsBlankChar(SubSeq(a, 2, 2))
      b == IF hit THEN SkipBlanks(From(a, 2)) ELSE ""
      e == IndexOf(b, LineBreak, 1)
      item == IF e = 0 THEN b ELSE SubSeq(b, 1, e - 1)
  IN  IF s = "" \/ p = 0 THEN s
      ELSE IF hit
      THEN SubSeq(s, 1, p - 1) \o BulletDiv(item)
             \o (IF e = 0 THEN "" ELSE BulletLines(From(b, e)))
      ELSE SubSeq(s, 1, p + Len(LineBreak) - 1) \o BulletLines(From(s, p + Len(LineBreak)))

\* /(POINTS|REBOUNDS|ASSISTS|STEALS|BLOCKS|THREE POINTERS):/g
StatWords(s) ==
  LET w(x, name) == ReplaceAll(x, name \o ":", StatDiv(name))
  IN  w(w(w(w(w(w(s, "POINTS"), "REBOUNDS"), "ASSISTS"), "STEALS"), "BLOCKS"), "THREE POINTERS")

\* the third chain (lines 363-388) on ASCII text
Projection(s) == StatWords(BulletLines(CategoryLines(s)))

\* the fourth chain (lines 391-393)
SpacingBlocks(s) ==
  ReplaceAll(ReplaceAll(s, ParagraphBreak, "<div style=\"margin: 12px 0;\"></div>"),
             LineBreak, "<div style=\"margin: 2px 0;\"></div>")

\* parseMarkdown
ParseMarkdown(text) ==
  IF text = "" THEN "" ELSE SpacingBlocks(Projection(BreakMarkers(Structural(text))))

\* the first position of s holding one of chars, 0 when there is none
FirstOf(s, chars) ==
  LET hits == {k \in 1..Len(s) : SubSeq(s, k, k) \in chars}
  IN  IF hits = {} THEN 0 ELSE CHOOSE k \in hits : \A j \in hits : k <= j

\* the first position >= i of s at which http:// or https:// starts
NextUrl(s, i) ==
  LET a == IndexOf(s, "http://", i)
      b == IndexOf(s, "https://", i)
  IN  IF a = 0 THEN b ELSE IF b = 0 THEN a ELSE Min(a, b)

\* the lookahead [^<]*> | [^<>]*<\/a> matches at the head of rest: the text
\* runs into the end of a tag, or into the end tag of an anchor
LookaheadMatches(rest) ==
  LET j == FirstOf(rest, {"<", ">"})
  IN  j # 0 /\ (SubSeq(rest, j, j) = ">" \/ StartsWith(From(rest, j), "</a>"))

\* the last position of the match of urlRegex that starts at p, 0 when the
\* regex does not match there: (?<!["'])(?<!href=") before p, the scheme, a
\* greedy run of [^\s<] given back from the right until the negative
\* lookahead lets the match stand
UrlMatchEnd(s, p) ==
  LET scheme == IF StartsWith(From(s, p), "https://") THEN 8 ELSE 7
      tail == From(s, p + scheme)
      stop == FirstOf(tail, {" ", "\t", "\n", "<"})
      run == IF stop = 0 THEN Len(tail) ELSE stop - 1
      behind == \/ (p > 1 /\ SubSeq(s, p - 1, p - 1) \in {"\"", "'"})
                \/ (p > 6 /\ SubSeq(s, p - 6, p - 1) = "href=\"")
      ends == {e \in (p + scheme)..(p + scheme + run - 1) :
                 ~LookaheadMatches(From(s, e + 1))}
  IN  IF behind \/ ends = {} THEN 0
      ELSE CHOOSE e \in ends : \A f \in ends : f <= e

\* formattedText.replace(urlRegex, url => anchor) from position i on
RECURSIVE AutoLinkAt(_, _)
AutoLinkAt(s, i) ==
  LET p == NextUrl(s, i)
      e == IF p = 0 THEN 0 ELSE UrlMatchEnd(s, p)
  IN  IF s = "" \/ p = 0 THEN From(s, i)
      ELSE IF e # 0
      THEN SubSeq(s, i, p - 1) \o Anchor(SubSeq(s, p, e), SubSeq(s, p, e))
             \o AutoLinkAt(s, e + 1)
      ELSE SubSeq(s, i, p) \o AutoLinkAt(s, p + 1)

AutoLink(s) == AutoLinkAt(s, 1)

\* ---------------------------------------------- innerHTML (sanitizeHtml)
\* tempDiv.innerHTML = html; return tempDiv.innerHTML: the HTML fragment
\* parser with a div as context, then the fragment serializer.  Modelled:
\* text with the references &amp; &lt; &gt; &quot;, start tags with
\* attributes (unquoted, single- and double-quoted), void elements, end tags
\* of open elements, end tags without an open element, the raw text of
\* script and style, plaintext, the line feed dropped after <pre>, and the
\* closing of open elements at the end of input.  The texts of the model are
\* lower-case and properly nested where they nest, and hold no comment, no
\* p, table, select or form element and no second anchor inside an anchor,
\* which is where the parser's other insertion rules apply.
VoidElements ==
  {"area", "base", "br", "col", "embed", "hr", "img", "input", "link", "meta",
   "source", "track", "wbr"}

RawTextElements == {"script", "style"}

Letters ==
  {"a", "b", "c", "d", "e", "f", "g", "h", "i", "j", "k", "l", "m", "n", "o",
   "p", "q", "r", "s", "t", "u", "v", "w", "x", "y", "z"}

HtmlSpace == {" ", "\t", "\n"}

\* character references decoded by the tokenizer
RECURSIVE DecodeRefs(_)
DecodeRefs(t) ==
  LET p == IndexOf(t, "&", 1)
      r == From(t, p)
      ref == IF StartsWith(r, "&amp;") THEN <<"&", 5>>
             ELSE IF StartsWith(r, "&lt;") THEN <<"<", 4>>
             ELSE IF StartsWith(r, "&gt;") THEN <<">", 4>>
             ELSE IF StartsWith(r, "&quot;") THEN <<"\"", 6>>
             ELSE <<"&", 1>>
  IN  IF t = "" \/ p = 0 THEN t
      ELSE SubSeq(t, 1, p - 1) \o ref[1] \o DecodeRefs(From(t, p + ref[2]))

\* the serializer's escaping of a text node
EncodeText(t) ==
  ReplaceAll(ReplaceAll(ReplaceAll(t, "&", "&amp;"), "<", "&lt;"), ">", "&gt;")

\* the serializer's escaping of an attribute value
EncodeAttr(v) == ReplaceAll(ReplaceAll(v, "&", "&amp;"), "\"", "&quot;")

RECURSIVE SkipSpace(_)
SkipSpace(s) ==
  IF Len(s) > 0 /\ SubSeq(s, 1, 1) \in (HtmlSpace \cup {"/"}) THEN SkipSpace(From(s, 2)) ELSE s

\* the prefix of s before the first character of stops (all of s if none)
Upto(s, stops) ==
  LET k == FirstOf(s, stops) IN IF k = 0 THEN s ELSE SubSeq(s, 1, k - 1)

\* The attributes of a start tag, s being the input after the tag name:
\* their serialization, the input after the closing ">", and whether the
\* tag was closed at all (a tag cut off by the end of input is dropped).
RECURSIVE ParseAttrs(_)
ParseAttrs(s) ==
  LET a == SkipSpace(s)
      name == Upto(a, HtmlSpace \cup {"/", ">", "="})
      b == SkipSpace(From(a, Len(name) + 1))
      hasValue == StartsWith(b, "=")
      c == IF hasValue THEN SkipSpace(From(b, 2)) ELSE b
      quote == IF hasValue /\ Len(c) > 0 /\ SubSeq(c, 1, 1) \in {"\"", "'"}
               THEN SubSeq(c, 1, 1) ELSE ""
      closeq == IF quote = "" THEN 0 ELSE IndexOf(c, quote, 2)
      value == IF ~hasValue THEN ""
               ELSE IF quote = "" THEN Upto(c, HtmlSpace \cup {">"})
               ELSE SubSeq(c, 2, closeq - 1)
      after == IF ~hasValue THEN b
               ELSE IF quote = "" THEN From(c, Len(value) + 1)
               ELSE From(c, closeq + 1)
      more == ParseAttrs(after)
  IN  IF a = "" THEN [ok |-> FALSE, out |-> "", rest |-> ""]
      ELSE IF StartsWith(a, ">") THEN [ok |-> TRUE, out |-> "", rest |-> From(a, 2)]
      ELSE IF quote # "" /\ closeq = 0 THEN [ok |-> FALSE, out |-> "", rest |-> ""]
      ELSE [ok |-> more.ok,
            out |-> " " \o name \o "=\"" \o EncodeAttr(DecodeRefs(value)) \o "\"" \o more.out,
            rest |-> more.rest]

\* the end tags of the elements of stack, innermost first
RECURSIVE CloseTags(_)
CloseTags(stack) ==
  IF stack = <<>> THEN "" ELSE "</" \o Head(stack) \o ">" \o CloseTags(Tail(stack))

\* the position in stack of the innermost open element called name, 0 if none
OpenIndex(stack, name) ==
  LET hits == {k \in DOMAIN stack : stack[k] = name}
  IN  IF hits = {} THEN 0 ELSE CHOOSE k \in hits : \A j \in hits : k <= j

\* the serialization of the tree the parser builds from h while the
\* elements of stack (innermost first) are open
RECURSIVE InnerHTML(_, _)
InnerHTML(h, stack) ==
  LET top == IF stack = <<>> THEN "" ELSE Head(stack)
      rawEnd == IndexOf(h, "</" \o top \o ">", 1)
      textEnd == IndexOf(h, "<", 1)
      text == IF textEnd = 0 THEN h ELSE SubSeq(h, 1, textEnd - 1)
      isEnd == Len(h) >= 3 /\ SubSeq(h, 1, 2) = "</" /\ SubSeq(h, 3, 3) \in Letters
      isStart == Len(h) >= 2 /\ SubSeq(h, 2, 2) \in Letters
      endName == Upto(From(h, 3), HtmlSpace \cup {"/", ">"})
      endClose == IndexOf(h, ">", 3)
      k == OpenIndex(stack, endName)
      name == Upto(From(h, 2), HtmlSpace \cup {"/", ">"})
      attrs == ParseAttrs(From(h, Len(name) + 2))
      inner == IF name \in {"pre", "listing"} /\ StartsWith(attrs.rest, "\n")
               THEN From(attrs.rest, 2) ELSE attrs.rest
  IN  IF h = "" THEN CloseTags(stack)
      ELSE IF top = "plaintext" THEN h \o CloseTags(stack)
      ELSE IF top \in RawTextElements THEN
        IF rawEnd = 0 THEN h \o CloseTags(stack)
        ELSE SubSeq(h, 1, rawEnd - 1) \o "</" \o top \o ">"
               \o InnerHTML(From(h, rawEnd + Len(top) + 3), Tail(stack))
      ELSE IF ~StartsWith(h, "<") THEN
        EncodeText(DecodeRefs(text)) \o InnerHTML(From(h, Len(text) + 1), stack)
      ELSE IF isEnd THEN
        IF endClose = 0 THEN CloseTags(stack)
        ELSE IF k = 0 THEN InnerHTML(From(h, endClose + 1), stack)
        ELSE CloseTags(SubSeq(stack, 1, k))
               \o InnerHTML(From(h, endClose + 1), SubSeq(stack, k + 1, Len(stack)))
      ELSE IF isStart THEN
        IF ~attrs.ok THEN CloseTags(stack)
        ELSE "<" \o name \o attrs.out \o ">"
               \o (IF name \in VoidElements THEN InnerHTML(attrs.rest, stack)
                   ELSE InnerHTML(inner, <<name>> \o stack))
      ELSE "&lt;" \o InnerHTML(From(h, 2), stack)

\* sanitizeHtml
SanitizeHtml(html) == InnerHTML(html, <<>>)

\* formatMessageText
FormatMessageText(text) == SanitizeHtml(AutoLink(ParseMarkdown(text)))

\* message texts without markdown syntax and without a URL
PlainTexts ==
  {"a < b & c", "<img src=x onerror=alert(1)>", "<script>alert(1)</script>",
   "<plaintext>x"}

\* message texts with links and bare URLs
LinkTexts ==
  {"[a](https://x.test)", "[https://x.test](https://x.test)",
   "[a](https://x.test) https://y.test", "https://y.test -> [a](https://x.test)",
   "[w](https://x.test/a_(b))"}

\* message texts that are one fenced code block
FencedTexts == {"~~~a b~~~", "~~~**a**~~~", "~~~a\nb~~~", "~~~[a](u)~~~", "~~~\n# a\n~~~"}

\* message texts with emphasis markers
EmphasisTexts == {"*", "**", "**a*", "a * b", "**Hi** *x*"}

MarkdownTexts == PlainTexts \cup LinkTexts \cup FencedTexts \cup EmphasisTexts

\* what the MessageText of message i shows (dangerouslySetInnerHTML)
Rendered(i) == FormatMessageText(messages[i].text)

\* The client with the texts above typed and submitted by the user and
\* arriving as frames (none of them is JSON, so each is stored as received).
SubmitShown == Len(messages) < MaxRendered /\ HandleSubmit

InboundShown(s, d) == Len(messages) < MaxRendered /\ SockMessage(s, d)

RenderNext ==
  \/ \E strict \in BOOLEAN, r1 \in RandomDraws, r2 \in RandomDraws : Mount(strict, r1, r2)
  \/ \E s \in 1..MaxSockets : SockOpen(s)
  \/ \E v \in MarkdownTexts : OnChange(v)
  \/ SubmitShown
  \/ \E s \in 1..MaxSockets, d \in MarkdownTexts : InboundShown(s, d)

RenderSpec == Init /\ [][RenderNext]_vars

\* ----------------------------------------------------- session identity
\* Math.random().toString(36) over the generator's range [0, 1): the draw 0
\* renders as "0", the draw 0.5 as "0.i", a typical draw as eleven or more
\* digits after the point
SessionDraws == {"0", "0.i", "0.4fzyo82mvyr8kq1"}

\* the chatSessionId entry an earlier page load can have left behind
StoredItems == {NoItem, [has |-> TRUE, val |-> ""], [has |-> TRUE, val |-> "k3j9x"]}

SessionInit ==
  /\ phase = "init"
  /\ effectWs = Null
  /\ ws = Null
  /\ isConnected = FALSE
  /\ messages = <<>>
  /\ inputValue = ""
  /\ isLoading = FALSE
  /\ sockets = <<>>
  /\ timers = NoTimers
  /\ localStorage \in StoredItems
  /\ ev = Event("none", FALSE)

\* the connection side of the client with every kind of draw and of stored
\* entry
SessionNext ==
  \/ \E strict \in BOOLEAN, r1 \in SessionDraws, r2 \in SessionDraws : Mount(strict, r1, r2)
  \/ Unmount
  \/ \E s \in 1..MaxSockets : SockOpen(s)
  \/ \E s \in 1..MaxSockets : SockClose(s)
  \/ \E s \in 1..MaxSockets : SockError(s)
  \/ \E r \in SessionDraws : TimerFire(r)
  \/ Tick

SessionSpec == SessionInit /\ [][SessionNext]_vars

\* ------------------------------------------------------------ properties
LastMessage == messages[Len(messages)]

\* q is empty or consists of whitespace only
IsBlank(q) == \A i \in 1..Len(q) : SubSeq(q, i, i) \in {" ", "\t", "\n"}

\* messages' is messages followed by exactly one record
AppendsOne == /\ Len(messages') = Len(messages) + 1
              /\ SubSeq(messages', 1, Len(messages)) = messages

\* the wire payload {"query": q} of the non-blank query of Queries
ExpectedPayload(q) ==
  IF q = " \"Hello\" " THEN "{\"query\":\" \\\"Hello\\\" \"}" ELSE "{\"query\":\"?\"}"

\* an inbound frame d is dispatched to a mounted client
Inbound(d) ==
  Mounted /\ ev'.type = "message" /\ \E s \in DOMAIN sockets : SockMessage(s, d)

\* handleSubmit runs
Submits == ev'.type = "submit" /\ HandleSubmit

\* the error event of some socket is dispatched
Errors == ev'.type = "error" /\ \E s \in DOMAIN sockets : SockError(s)

\* C1: after any open, close or error event dispatched to a mounted client,
\* isConnected is true iff that most recent event was an open; in particular
\* it is false after an error.
C1_ConnectedIffLastOpen ==
  (Mounted /\ ev.type \in {"open", "close", "error"}) =>
    (isConnected <=> ev.type = "open")

\* C2: a submit whose query is blank, or made while isConnected is false,
\* changes neither the store nor any socket nor the connection state nor the
\* Pending-Response Flag, and does not throw.
C2_BlockedSubmitIsNoOp ==
  [][(Submits /\ (IsBlank(inputValue) \/ ~isConnected)) =>
       /\ UNCHANGED <<messages, sockets, ws, isConnected, isLoading, timers>>
       /\ ~ev'.threw]_vars

\* C2 witness: a submit of a non-blank query ran while disconnected and left
\* the input, the store and the flag alone
C2_Witness ==
  /\ ev.type = "submit"
  /\ ~ev.threw
  /\ ~IsBlank(inputValue)
  /\ ~isConnected
  /\ ws # Null
  /\ ~isLoading

C4_InboundAppendsExactlyOne ==
  [][\A d \in Payloads : Inbound(d) =>
       /\ AppendsOne
       /\ ~messages'[Len(messages')].isUser
       /\ ~isLoading']_vars

\* C4 witness: the frame "null" (JSON, not an object) has been dispatched
\* while a request was pending and stands in the store as one non-user Message
C4_Witness ==
  /\ Mounted
  /\ ev.type = "message"
  /\ Len(messages) = 2
  /\ messages[1].isUser
  /\ ~LastMessage.isUser
  /\ LastMessage.text = PayloadNull
  /\ ~isLoading

\* the frames that decode as a JSON object
ObjectPayloads == {d \in Payloads : JSONParse(d).ok /\ JSONParse(d).kind = "object"}

\* C5 as stated: for a payload that decodes as a JSON object the appended
\* text is the value of `text` when that field is present, otherwise the
\* value of `message`, and the sources are the payload's list, or empty.
C5_TextFieldWhenPresent ==
  [][\A d \in ObjectPayloads : Inbound(d) =>
       LET data == JSONParse(d)
           m == messages'[Len(messages')]
       IN  /\ m.text = IF data.text.def THEN data.text.s ELSE data.message.s
           /\ m.sources = IF data.hasSources THEN data.sources ELSE <<>>]_vars

\* C5 amended: the appended text is the value of `text` when present and
\* non-empty, otherwise the value of `message` when present and non-empty,
\* otherwise the raw payload string; the sources are the payload's list in
\* the same order, or empty when the payload has none.
C5_TextFieldWhenNonEmpty ==
  [][\A d \in ObjectPayloads : Inbound(d) =>
       LET data == JSONParse(d)
           m == messages'[Len(messages')]
       IN  /\ (data.text.def /\ data.text.s # "") => m.text = data.text.s
           /\ (~(data.text.def /\ data.text.s # "")
                 /\ data.message.def /\ data.message.s # "") => m.text = data.message.s
           /\ (~(data.text.def /\ data.text.s # "")
                 /\ ~(data.message.def /\ data.message.s # "")) => m.text = d
           /\ m.hasSources
           /\ m.sources = IF data.hasSources THEN data.sources ELSE <<>>]_vars

\* C5 witness: a frame carrying both field names and two sources stands in
\* the store with the primary field's text and the sources in order
C5_Witness ==
  /\ Mounted
  /\ ev.type = "message"
  /\ Len(messages) > 0
  /\ LastMessage.text = "**Hi**"
  /\ LastMessage.sources = <<"https://s.test", "https://t.test">>

\* C6: for a payload that is not valid JSON the appended Message has the
\* entire raw payload as its text and no sources.
C6_RawFallback ==
  [][\A d \in Payloads : (Inbound(d) /\ ~JSONParse(d).ok) =>
       /\ AppendsOne
       /\ messages'[Len(messages')].text = d
       /\ messages'[Len(messages')].sources = <<>>
       /\ ~messages'[Len(messages')].isUser]_vars

\* C6 witness: the frame "pong" stands in the store as received
C6_Witness ==
  /\ Mounted
  /\ ev.type = "message"
  /\ Len(messages) > 0
  /\ LastMessage = [text |-> "pong", isUser |-> FALSE, hasSources |-> FALSE,
                    sources |-> <<>>]

C8_NoConnectAfterTeardown ==
  [][phase = "unmounted" => Len(sockets') = Len(sockets)]_vars

\* C9: when the teardown cleanup has run, the connection the client owned
\* (the socket ws refers to) has had close() called on it.
C9_TeardownClosesConnection ==
  [][(Unmount /\ ws # Null) => sockets'[ws].closeCalled]_vars

\* C10: a transport error event clears the Pending-Response Flag of a
\* mounted client, arms no reconnect timer, opens no connection and appends
\* nothing to the store.
C10_ErrorClearsPendingOnly ==
  [][Errors =>
       /\ Mounted => ~isLoading'
       /\ timers' = timers
       /\ Len(sockets') = Len(sockets)
       /\ messages' = messages]_vars

\* C10 witness: an error event was dispatched after an accepted submit with
\* no reply in between; the flag is clear and no timer is armed
C10_Witness ==
  /\ Mounted
  /\ ev.type = "error"
  /\ Len(messages) > 0
  /\ LastMessage.isUser
  /\ ~isLoading
  /\ PendingTimers = 0

\* C11: while the client stays mounted the store after any step (submit,
\* socket event, timer, typing) is the store before, unchanged or followed by
\* exactly one new Message; a Message is added only by the submit or the
\* inbound message just dispatched and is the Message of that event (a user
\* Message for a submit, a non-user one for a frame); close, error and
\* reconnect steps leave the store as it is.
C11_StoreAppendOnly ==
  [][(Mounted /\ phase' = "mounted") =>
       /\ messages' = messages \/ AppendsOne
       /\ messages' # messages =>
            /\ ev'.type \in {"submit", "message"}
            /\ messages'[Len(messages')].isUser <=> ev'.type = "submit"
       /\ ev'.type \in {"open", "close", "error", "timer"} => messages' = messages]_vars

\* C11 witness: a submit and a reply are in the store in dispatch order and
\* are still there after the connection closed and a reconnect timer ran
C11_Witness ==
  /\ Mounted
  /\ ev.type = "timer"
  /\ Len(messages) = 2
  /\ messages[1] = UserMessage(" \"Hello\" ")
  /\ messages[2] = InboundMessage(PayloadLegacy)

\* the session identifier a connection was addressed with
UrlPrefix == "ws://localhost:8765/ws/"
SessionIdOf(sock) == SubSeq(sock.url, Len(UrlPrefix) + 1, Len(sock.url))

\* C12: once an identifier is stored it is never written again, and the
\* initial connection and every reconnect are addressed with the same
\* session identifier.
C12_SessionIdGeneratedOnce ==
  /\ [][localStorage.has => localStorage' = localStorage]_vars
  /\ [](\A s \in DOMAIN sockets, t \in DOMAIN sockets :
          SessionIdOf(sockets[s]) = SessionIdOf(sockets[t]))

\* C13: every identifier getSessionId returned (the one each connection was
\* addressed with) is non-empty, whatever the draw and the stored entry.
C13_SessionIdNeverEmpty ==
  \A s \in DOMAIN sockets : SessionIdOf(sockets[s]) # ""

\* C14: while the Pending-Response Flag is true a submit hands no query to
\* any socket and adds nothing to the store.
C14_PendingGatesResubmit ==
  [][(Submits /\ isLoading) => (sockets' = sockets /\ messages' = messages)]_vars

\* a message is on screen
Shown == Mounted /\ Len(messages) > 0

\* C15: for a text that holds no markdown syntax and no URL the rendered
\* output holds no markup at all: every character of the raw text, a "<"
\* included, arrives as escaped text content.
C15_RawTextNeverMarkup ==
  (Shown /\ LastMessage.text \in PlainTexts) =>
     /\ IndexOf(Rendered(Len(messages)), "<", 1) = 0
     /\ Rendered(Len(messages)) = EncodeText(LastMessage.text)

\* C16: sanitizeHtml applied to its own output returns that output, for
\* every string the client hands to it.
C16_SanitizeIdempotent ==
  Shown =>
    \A x \in {AutoLink(ParseMarkdown(LastMessage.text))} :
      SanitizeHtml(SanitizeHtml(x)) = SanitizeHtml(x)

\* the number of places at which pat occurs in s
CountOf(s, pat) ==
  Cardinality({k \in 1..(Len(s) - Len(pat) + 1) : SubSeq(s, k, k + Len(pat) - 1) = pat})

\* the link texts with the target of their markdown link and the bare URLs
\* that stand elsewhere in them
LinkCases ==
  {[text |-> "[a](https://x.test)", url |-> "https://x.test", bare |-> {}],
   [text |-> "[https://x.test](https://x.test)", url |-> "https://x.test", bare |-> {}],
   [text |-> "[a](https://x.test) https://y.test", url |-> "https://x.test",
    bare |-> {"https://y.test"}],
   [text |-> "https://y.test -> [a](https://x.test)", url |-> "https://x.test",
    bare |-> {"https://y.test"}],
   [text |-> "[w](https://x.test/a_(b))", url |-> "https://x.test/a_(b)", bare |-> {}]}

\* the opening of an anchor to url that opens in a new context
AnchorTo(url) == "<a href=\"" \o url \o "\" target=\"_blank\" rel=\"noopener noreferrer\""

\* C17: a text with one markdown link [label](url) renders with exactly one
\* anchor to url (href = url, target _blank, rel noopener noreferrer), each
\* bare URL elsewhere in the text with exactly one anchor of its own, and no
\* further anchor: nothing inside an href or between anchor tags is wrapped
\* again.
C17_LinksRenderOnce ==
  Shown =>
    \A c \in LinkCases : LastMessage.text = c.text =>
      \A out \in {Rendered(Len(messages))} :
        /\ CountOf(out, AnchorTo(c.url)) = 1
        /\ \A b \in c.bare : CountOf(out, AnchorTo(b)) = 1
        /\ CountOf(out, "<a ") = 1 + Cardinality(c.bare)
        /\ CountOf(out, "</a>") = 1 + Cardinality(c.bare)

\* the text between the fences of a text that is one fenced block
FenceContent(t) == SubSeq(t, Len(Fence) + 1, Len(t) - Len(Fence))

\* C18: a text that is one fenced code block renders as one code element
\* holding the content between the fences verbatim (as escaped text, line
\* feeds kept): no strong, em, anchor, heading or spacing block inside.
C18_FenceContentVerbatim ==
  (Shown /\ LastMessage.text \in FencedTexts) =>
    \A out \in {Rendered(Len(messages))} :
      /\ out = "<pre><code>" \o EncodeText(FenceContent(LastMessage.text)) \o "</code></pre>"
      /\ \A tag \in {"<strong", "<em", "<a ", "<h1", "<h2", "<h3", "<div"} :
           CountOf(out, tag) = 0

\* the emphasis texts whose markers form no complete pair around text
UnbalancedTexts == {"*", "**", "**a*", "a * b"}

\* C19: a text whose * markers form no complete bold or italic pair around
\* text renders with no strong and no em element, and with every marker
\* character of the input still in the output.
C19_UnbalancedMarkersLiteral ==
  (Shown /\ LastMessage.text \in UnbalancedTexts) =>
    \A out \in {Rendered(Len(messages))} :
      /\ CountOf(out, "<strong") = 0
      /\ CountOf(out, "<em") = 0
      /\ CountOf(out, "*") = CountOf(LastMessage.text, "*")

\* the connections of the client that are connecting or open
LiveSockets == {s \in DOMAIN sockets : sockets[s].readyState \in {"connecting", "open"}}

\* C20: a mounted App owns at most one connection that is connecting or
\* open, also when the mount effect is run, cleaned up and run again.
C20_AtMostOneLiveConnection ==
  Mounted => Cardinality(LiveSockets) <= 1

\* C21: whenever handleSubmit would pass its guard, the socket ws refers to
\* is open, so an accepted query is never handed to a connecting, closing or
\* closed socket.
C21_AcceptedSubmitIsTransmitted ==
  (Mounted /\ ~SubmitBlocked) => sockets[ws].readyState = "open"

=============================================================================
